---- MODULE Spec2Model ----
(***************************************************************************)
(* The tic-tac-toe engine of PostLab4Solution/oxo_logic.py (class Game)    *)
(* as a state machine.  A Python list is a TLA+ sequence: Python index i   *)
(* is position i + 1.  Every method is one operator over the board (and    *)
(* the store) that yields the method's whole outcome, and one action that  *)
(* applies it to the state.                                                *)
(***************************************************************************)
EXTENDS Integers, Sequences, FiniteSets, TLC

VARIABLES
    game,       \* self.game, the board
    snapshot,   \* the single save slot of the persistence adapter
    storeOk,    \* whether the storage location can be read and written
    op,         \* the last call made on the engine ("env": the store changed)
    arg,        \* the argument of that call
    ret,        \* what the call returned
    raised,     \* the exception the call raised, "none" if it returned
    pre,        \* self.game when the call started
    lastSaved,  \* the board the last successful saveGame() was called with
    pc,         \* where a scripted caller stands, "idle" without a script
    objects,    \* the list objects of the program, by identity
    refs,       \* which list the caller and each Game instance refer to
    result,     \* the local variable result of playTest
    iters       \* how many times the body of playTest's loop was entered

vars == <<game, snapshot, storeOk, op, arg, ret, raised, pre, lastSaved, pc,
          objects, refs, result, iters>>

----------------------------------------------------------------------------
(* Values *)

BoardLen == 9

Symbols == {" ", "X", "O"}

Cells == 0..(BoardLen - 1)

Boards == [1..BoardLen -> Symbols]

NoValue == "NoValue"

NoArg == "NoArg"

\* [" "] * 9
NewBoard == [i \in 1..BoardLen |-> " "]

\* range(n) as a sequence
Range(n) == [k \in 1..n |-> k - 1]

\* lst[i], with Python's negative indices
Get(lst, i) == IF i < 0 THEN lst[Len(lst) + i + 1] ELSE lst[i + 1]

\* lst[i] = v
Put(lst, i, v) ==
    IF i < 0 THEN [lst EXCEPT ![Len(lst) + i + 1] = v] ELSE [lst EXCEPT ![i + 1] = v]

----------------------------------------------------------------------------
(* Game.__init__ *)

None == [none |-> TRUE, list |-> <<>>]

Some(lst) == [none |-> FALSE, list |-> lst]

\* mutant: only "if game", the length is not tested
Game_NoLenCheck(supplied) ==
    IF ~supplied.none /\ Len(supplied.list) # 0 THEN supplied.list ELSE NewBoard

\* "if game and len(game) == 9": None and the empty list are falsy
Game(supplied) ==
    IF ~supplied.none /\ Len(supplied.list) # 0 /\ Len(supplied.list) = BoardLen
    THEN supplied.list
    ELSE NewBoard

----------------------------------------------------------------------------
(* Game.newGame *)

\* mutant: the new list is returned but not assigned to self.game
newGame_NoAssign(g) == [game |-> g, ret |-> NewBoard, raised |-> "none"]

newGame(g) == [game |-> NewBoard, ret |-> NewBoard, raised |-> "none"]

----------------------------------------------------------------------------
(* Game._generateMove *)

\* options = [i for i in range(len(self.game)) if self.game[i] == " "]
options(g) == SelectSeq(Range(Len(g)), LAMBDA i : Get(g, i) = " ")

\* mutant: always the first blank cell, options[0]
generateMove_First(g) ==
    LET opts == options(g)
    IN  IF opts # <<>> THEN {opts[1]} ELSE {-1}

\* mutant: the last cell is never looked at, range(len(self.game) - 1)
generateMove_SkipLast(g) ==
    LET opts == SelectSeq(Range(Len(g) - 1), LAMBDA i : Get(g, i) = " ")
    IN  IF opts # <<>> THEN {opts[k] : k \in 1..Len(opts)} ELSE {-1}

\* the values "random.choice(options) if options else -1" can return
generateMove(g) ==
    LET opts == options(g)
    IN  IF opts # <<>> THEN {opts[k] : k \in 1..Len(opts)} ELSE {-1}

----------------------------------------------------------------------------
(* Game._isWinningMove *)

\* mutant: the second diagonal mistyped as (2,4,7)
wins_Typo == << <<0, 1, 2>>, <<3, 4, 5>>, <<6, 7, 8>>,
                <<0, 3, 6>>, <<1, 4, 7>>, <<2, 5, 8>>,
                <<0, 4, 8>>, <<2, 4, 7>> >>

wins == << <<0, 1, 2>>, <<3, 4, 5>>, <<6, 7, 8>>,
           <<0, 3, 6>>, <<1, 4, 7>>, <<2, 5, 8>>,
           <<0, 4, 8>>, <<2, 4, 6>> >>

\* chars = self.game[a] + self.game[b] + self.game[c], one character per cell
chars(g, t) == <<Get(g, t[1]), Get(g, t[2]), Get(g, t[3])>>

RECURSIVE winScan(_, _, _)
\* the for loop over the triples from the k-th on: True at the first match
winScan(g, ws, k) ==
    IF k > Len(ws) THEN FALSE
    ELSE IF chars(g, ws[k]) = <<"X", "X", "X">> \/ chars(g, ws[k]) = <<"O", "O", "O">>
         THEN TRUE
         ELSE winScan(g, ws, k + 1)

isWinningMove(g) == winScan(g, wins, 1)

----------------------------------------------------------------------------
(* Game.userMove *)

\* mutant: the occupied-cell test is missing
userMove_NoCheck(g, cell) ==
    LET g2 == Put(g, cell, "X")
    IN  [game |-> g2,
         ret |-> IF isWinningMove(g2) THEN "X" ELSE "",
         raised |-> "none"]

\* mutant: the X is written one cell too low, self.game[cell - 1] = "X"
userMove_OffByOne(g, cell) ==
    IF Get(g, cell) # " "
    THEN [game |-> g, ret |-> NoValue, raised |-> "ValueError"]
    ELSE LET g2 == Put(g, cell - 1, "X")
         IN  [game |-> g2,
              ret |-> IF isWinningMove(g2) THEN "X" ELSE "",
              raised |-> "none"]

\* mutant: the user's move writes the computer's symbol
userMove_PlacesO(g, cell) ==
    IF Get(g, cell) # " "
    THEN [game |-> g, ret |-> NoValue, raised |-> "ValueError"]
    ELSE LET g2 == Put(g, cell, "O")
         IN  [game |-> g2,
              ret |-> IF isWinningMove(g2) THEN "X" ELSE "",
              raised |-> "none"]

userMove(g, cell) ==
    IF Get(g, cell) # " "
    THEN [game |-> g, ret |-> NoValue, raised |-> "ValueError"]
    ELSE LET g2 == Put(g, cell, "X")
         IN  [game |-> g2,
              ret |-> IF isWinningMove(g2) THEN "X" ELSE "",
              raised |-> "none"]

----------------------------------------------------------------------------
(* Game.computerMove, for the cell that _generateMove returned *)

\* mutant: the "cell == -1" test is missing, so self.game[-1] = "O"
computerMove_NoDraw(g, cell) ==
    LET g2 == Put(g, cell, "O")
    IN  [game |-> g2,
         ret |-> IF isWinningMove(g2) THEN "O" ELSE "",
         raised |-> "none"]

computerMove(g, cell) ==
    IF cell = -1
    THEN [game |-> g, ret |-> "D", raised |-> "none"]
    ELSE LET g2 == Put(g, cell, "O")
         IN  [game |-> g2,
              ret |-> IF isWinningMove(g2) THEN "O" ELSE "",
              raised |-> "none"]

----------------------------------------------------------------------------
(* The persistence adapter oxo_data: one save slot at a fixed location.    *)
(* saveGame writes the board over whatever the slot holds and fails with   *)
(* an I/O failure when the location cannot be written; restoreGame returns *)
(* what the slot holds and fails when there is no snapshot or the location *)
(* cannot be read.                                                         *)

NoSnapshot == [exists |-> FALSE, data |-> <<>>]

oxo_data_saveGame(snap, ok, g) ==
    IF ok
    THEN [snapshot |-> [exists |-> TRUE, data |-> g], raised |-> "none"]
    ELSE [snapshot |-> snap, raised |-> "IOFailure"]

oxo_data_restoreGame(snap, ok) ==
    IF ~snap.exists THEN [value |-> <<>>, raised |-> "NotFound"]
    ELSE IF ~ok THEN [value |-> <<>>, raised |-> "IOFailure"]
    ELSE [value |-> snap.data, raised |-> "none"]

----------------------------------------------------------------------------
(* Game.saveGame *)

\* mutant: the adapter's failure is caught and dropped
saveGame_Swallow(g, snap, ok) ==
    LET w == oxo_data_saveGame(snap, ok, g)
    IN  [game |-> g, snapshot |-> w.snapshot, ret |-> NoValue, raised |-> "none"]

saveGame(g, snap, ok) ==
    LET w == oxo_data_saveGame(snap, ok, g)
    IN  [game |-> g, snapshot |-> w.snapshot, ret |-> NoValue, raised |-> w.raised]

----------------------------------------------------------------------------
(* Game.restoreGame *)

\* what "except IOError" catches: a missing file and a failed read
IOError == {"NotFound", "IOFailure"}

\* mutant: the length test inverted, "if len(game) != 9"
restoreGame_LenInverted(g, snap, ok) ==
    LET l == oxo_data_restoreGame(snap, ok)
    IN  IF l.raised = "none"
        THEN IF Len(l.value) # BoardLen
             THEN [game |-> l.value, ret |-> l.value, raised |-> "none"]
             ELSE newGame(g)
        ELSE IF l.raised \in IOError
             THEN newGame(g)
             ELSE [game |-> g, ret |-> NoValue, raised |-> l.raised]

\* mutant: no length test, the snapshot is installed as it comes
restoreGame_NoLenCheck(g, snap, ok) ==
    LET l == oxo_data_restoreGame(snap, ok)
    IN  IF l.raised = "none"
        THEN [game |-> l.value, ret |-> l.value, raised |-> "none"]
        ELSE IF l.raised \in IOError
             THEN newGame(g)
             ELSE [game |-> g, ret |-> NoValue, raised |-> l.raised]

\* mutant: no try/except, the adapter's failure reaches the caller
restoreGame_NoExcept(g, snap, ok) ==
    LET l == oxo_data_restoreGame(snap, ok)
    IN  IF l.raised = "none"
        THEN IF Len(l.value) = BoardLen
             THEN [game |-> l.value, ret |-> l.value, raised |-> "none"]
             ELSE newGame(g)
        ELSE [game |-> g, ret |-> NoValue, raised |-> l.raised]

\* mutant: the loaded list is not assigned to self.game
restoreGame_NoInstall(g, snap, ok) ==
    LET l == oxo_data_restoreGame(snap, ok)
    IN  IF l.raised = "none"
        THEN IF Len(l.value) = BoardLen
             THEN [game |-> g, ret |-> g, raised |-> "none"]
             ELSE newGame(g)
        ELSE IF l.raised \in IOError
             THEN newGame(g)
             ELSE [game |-> g, ret |-> NoValue, raised |-> l.raised]

restoreGame(g, snap, ok) ==
    LET l == oxo_data_restoreGame(snap, ok)
    IN  IF l.raised = "none"
        THEN IF Len(l.value) = BoardLen
             THEN [game |-> l.value, ret |-> l.value, raised |-> "none"]
             ELSE newGame(g)
        ELSE IF l.raised \in IOError
             THEN newGame(g)
             ELSE [game |-> g, ret |-> NoValue, raised |-> l.raised]

----------------------------------------------------------------------------
(* The engine's calls as actions *)

Called(name, a, out) ==
    /\ op' = name
    /\ arg' = a
    /\ pre' = game
    /\ game' = out.game
    /\ ret' = out.ret
    /\ raised' = out.raised
    /\ UNCHANGED <<objects, refs>>

NewGameCall ==
    /\ Called("newGame", NoArg, newGame(game))
    /\ UNCHANGED <<snapshot, storeOk, lastSaved, pc, result, iters>>

UserMoveCall ==
    \E cell \in Cells :
        /\ Called("userMove", cell, userMove(game, cell))
        /\ UNCHANGED <<snapshot, storeOk, lastSaved, pc, result, iters>>

\* arg records the cell that _generateMove chose
ComputerMoveAt(cell) ==
    /\ cell \in generateMove(game)
    /\ Called("computerMove", cell, computerMove(game, cell))
    /\ UNCHANGED <<snapshot, storeOk, lastSaved, pc, result, iters>>

ComputerMoveCall == \E cell \in Cells \cup {-1} : ComputerMoveAt(cell)

IsWinningMoveCall ==
    /\ Called("isWinningMove", NoArg,
              [game |-> game, ret |-> isWinningMove(game), raised |-> "none"])
    /\ UNCHANGED <<snapshot, storeOk, lastSaved, pc, result, iters>>

GenerateMoveCall ==
    \E cell \in generateMove(game) :
        /\ Called("generateMove", NoArg, [game |-> game, ret |-> cell, raised |-> "none"])
        /\ UNCHANGED <<snapshot, storeOk, lastSaved, pc, result, iters>>

SaveGameCall ==
    LET out == saveGame(game, snapshot, storeOk)
    IN  /\ Called("saveGame", NoArg, out)
        /\ snapshot' = out.snapshot
        /\ lastSaved' = IF out.raised = "none"
                        THEN [exists |-> TRUE, data |-> game]
                        ELSE lastSaved
        /\ UNCHANGED <<storeOk, pc, result, iters>>

RestoreGameCall ==
    /\ Called("restoreGame", NoArg, restoreGame(game, snapshot, storeOk))
    /\ UNCHANGED <<snapshot, storeOk, lastSaved, pc, result, iters>>

----------------------------------------------------------------------------
(* The engine constructed from any 9-cell board, None or a list of another *)
(* length, then driven by newGame, userMove and computerMove.  Nothing is  *)
(* saved here: restoreGame can only install a 9-cell board, and every      *)
(* one of them is already an initial state.                                *)

Supplied == {None, Some(<<>>), Some(<<"X", "O", "X">>)} \cup {Some(b) : b \in Boards}

\* no list is shared: the only list is the engine's own board
NoSharing ==
    /\ objects = <<>>
    /\ refs = <<>>

\* playTest is not running
NotPlaying ==
    /\ result = ""
    /\ iters = 0

Constructed(g) ==
    /\ game = g
    /\ snapshot = NoSnapshot
    /\ storeOk = TRUE
    /\ op = "init"
    /\ arg = NoArg
    /\ ret = NoValue
    /\ raised = "none"
    /\ pre = g
    /\ lastSaved = NoSnapshot
    /\ pc = "idle"
    /\ NoSharing
    /\ NotPlaying

Init == \E supplied \in Supplied : Constructed(Game(supplied))

Next == NewGameCall \/ UserMoveCall \/ ComputerMoveCall

Spec == Init /\ [][Next]_vars

----------------------------------------------------------------------------
(* Properties of the moves, checked under Spec *)

\* the 8 winning lines as sets of cells
Triples == {{0, 1, 2}, {3, 4, 5}, {6, 7, 8},
            {0, 3, 6}, {1, 4, 7}, {2, 5, 8},
            {0, 4, 8}, {2, 4, 6}}

\* every cell of the triple t holds the symbol s on board b
Filled(b, t, s) == \A i \in t : Get(b, i) = s

\* the cells of b other than i are the cells of a
SameExcept(a, b, i) == \A j \in Cells \ {i} : Get(b, j) = Get(a, j)

Full(b) == \A i \in Cells : Get(b, i) # " "

\* game.count("X") + game.count("O")
Marks(b) == Cardinality({i \in Cells : Get(b, i) # " "})

\* C1: userMove(i) on a cell that already holds "X" or "O" raises ValueError,
\* returns nothing, and each of the 9 cells is what it was before the call.
C1_OccupiedCellRaises ==
    (op = "userMove" /\ arg \in Cells /\ Get(pre, arg) \in {"X", "O"})
        => /\ raised = "ValueError"
           /\ ret = NoValue
           /\ \A i \in Cells : Get(game, i) = Get(pre, i)

C1_Witness ==
    /\ op = "userMove"
    /\ Get(pre, arg) = "O"
    /\ raised = "ValueError"
    /\ \E i \in Cells : Get(pre, i) = " "

\* C2: a successful userMove(i) returns "X" exactly when the X placed at i
\* completes a triple of three X's through i, and "" otherwise, on every board.
C2_UserWinIffOwnTriple ==
    (op = "userMove" /\ raised = "none")
        => /\ ret \in {"X", ""}
           /\ ret = "X" <=> \E t \in Triples : arg \in t /\ Filled(game, t, "X")

\* the symbol the call places
Mover == IF op = "userMove" THEN "X" ELSE "O"

\* the call placed its symbol on a cell outside a line that was already complete
PlacedBesideLine ==
    /\ op \in {"userMove", "computerMove"}
    /\ raised = "none"
    /\ arg \in Cells
    /\ Get(pre, arg) = " "
    /\ \E t \in Triples, s \in {"X", "O"} : Filled(pre, t, s) /\ arg \notin t

\* C3: on a board that already holds a completed line, a move on a cell outside
\* that line returns the mover's symbol only if the symbol just placed itself
\* forms a line, and returns "" otherwise.
C3_WinOnlyByPlacedSymbol ==
    PlacedBesideLine
        => IF \E t \in Triples : arg \in t /\ Filled(game, t, Mover)
           THEN ret \in {Mover, ""}
           ELSE ret = ""

\* C4: userMove(i) on a blank cell i returns normally, sets cell i to "X" and
\* leaves the other 8 cells as they were.
C4_UserMovePlacesX ==
    (op = "userMove" /\ arg \in Cells /\ Get(pre, arg) = " ")
        => /\ raised = "none"
           /\ Get(game, arg) = "X"
           /\ SameExcept(pre, game, arg)

C4_Witness ==
    /\ op = "userMove"
    /\ pre = NewBoard
    /\ arg = 8
    /\ Get(game, 8) = "X"

\* C5: computerMove() on a board with no blank cell returns "D" and changes no
\* cell, whether or not the board holds a completed line.
C5_FullBoardDraw ==
    (op = "computerMove" /\ Full(pre))
        => /\ raised = "none"
           /\ ret = "D"
           /\ game = pre

C5_Witness ==
    /\ op = "computerMove"
    /\ Full(pre)
    /\ isWinningMove(pre)
    /\ ret = "D"

\* C6: computerMove() on a board with a blank cell changes exactly one cell,
\* which was blank and now holds "O"; on the empty board it returns ""; and on
\* every board (each of them is the board of a freshly constructed engine)
\* each blank cell is one that computerMove() can choose.
C6_ComputerMovePlacesO ==
    /\ (op = "computerMove" /\ ~Full(pre))
         => /\ raised = "none"
            /\ arg \in Cells
            /\ Get(pre, arg) = " "
            /\ Get(game, arg) = "O"
            /\ SameExcept(pre, game, arg)
            /\ Cardinality({i \in Cells : Get(game, i) # Get(pre, i)}) = 1
            /\ pre = NewBoard => ret = ""
    /\ op = "init" => \A i \in Cells : Get(game, i) = " " => ENABLED ComputerMoveAt(i)

C6_Witness ==
    /\ op = "computerMove"
    /\ pre = NewBoard
    /\ arg = 8
    /\ Get(game, 8) = "O"
    /\ ret = ""

\* C11: newGame() called on any board (empty, in progress, won, drawn) returns
\* normally, and the engine's board and the returned board are then exactly 9
\* blank cells.
C11_NewGameResets ==
    op = "newGame"
        => /\ raised = "none"
           /\ Len(game) = 9
           /\ \A i \in 1..Len(game) : game[i] = " "
           /\ ret = game

C11_Witness ==
    /\ op = "newGame"
    /\ Full(pre)
    /\ Filled(pre, {0, 1, 2}, "X")
    /\ Marks(game) = 0

----------------------------------------------------------------------------
(* The two helpers that only read the board, _isWinningMove and            *)
(* _generateMove, called on the engine constructed from any board.         *)

NextPure == IsWinningMoveCall \/ GenerateMoveCall

SpecPure == Init /\ [][NextPure]_vars

\* C7: on each of the 3^9 boards isWinningMove() returns true exactly when one
\* of the 8 triples holds three identical non-blank symbols, and the board is
\* left as it was.
C7_WinIffTriple ==
    op = "isWinningMove"
        => /\ raised = "none"
           /\ ret \in BOOLEAN
           /\ ret <=> \E t \in Triples :
                         /\ \A i, j \in t : Get(pre, i) = Get(pre, j)
                         /\ \A i \in t : Get(pre, i) # " "
           /\ game = pre

C7_Witness ==
    /\ op = "isWinningMove"
    /\ ret = TRUE
    /\ Filled(game, {2, 4, 6}, "O")
    /\ \A t \in Triples \ {{2, 4, 6}}, s \in {"X", "O"} : ~Filled(game, t, s)

\* C12: generateMove() leaves the board as it was; it returns -1 exactly when
\* no cell is blank, and otherwise the index in 0..8 of a blank cell; and on
\* every board (each is the board of a freshly constructed engine) each blank
\* cell is a value the call can return.
C12_GenerateMoveBlankCell ==
    /\ op = "generateMove"
         => /\ raised = "none"
            /\ game = pre
            /\ ret = -1 <=> Full(pre)
            /\ ret # -1 => (ret \in Cells /\ Get(pre, ret) = " ")
    /\ op = "init" =>
         \A i \in Cells : Get(game, i) = " " => ENABLED (GenerateMoveCall /\ ret' = i)

C12_Witness ==
    /\ op = "generateMove"
    /\ ret = 8
    /\ Marks(pre) = 8

----------------------------------------------------------------------------
(* Saving and restoring.  The engine is constructed from one of a few      *)
(* boards, the caller moves while fewer than MaxMarks cells are marked,    *)
(* and the stored snapshot can be deleted, replaced by one of another      *)
(* length, or become unreadable behind the engine's back.                  *)

MaxMarks == 1

\* a 9-cell list that holds a character other than " ", "X", "O"
Foreign == <<"X", "O", "Z", "X", "O", " ", "X", "O", " ">>

\* list("XO XO XO "), list("XOXOXOXOX"), list("XXXOOOXOX"), list("XOX"), [],
\* a list of 10 cells, and a 9-cell list with a foreign character
StoreSupplied ==
    {None,
     Some(<<>>),
     Some(<<"X", "O", "X">>),
     Some(<<"X", "O", "X", "O", "X", "O", "X", "O", "X", "O">>),
     Some(Foreign),
     Some(<<"X", "O", " ", "X", "O", " ", "X", "O", " ">>),
     Some(<<"X", "O", "X", "O", "X", "O", "X", "O", "X">>),
     Some(<<"X", "X", "X", "O", "O", "O", "X", "O", "X">>)}

\* snapshots of a length other than 9: an empty file, list("XOX"), 10 cells
WrongLength ==
    {<<>>,
     <<"X", "O", "X">>,
     <<"X", "O", "X", "O", "X", "O", "X", "O", "X", "O">>}

StoreChanged ==
    /\ op' = "env"
    /\ arg' = NoArg
    /\ ret' = NoValue
    /\ raised' = "none"
    /\ pre' = game
    /\ UNCHANGED <<game, pc, objects, refs, result, iters>>

\* os.remove of the game file
DeleteSnapshot ==
    /\ snapshot.exists
    /\ snapshot' = NoSnapshot
    /\ lastSaved' = NoSnapshot
    /\ StoreChanged
    /\ UNCHANGED storeOk

\* the stored snapshot replaced by one of another length
CorruptSnapshot ==
    /\ snapshot.exists
    /\ \E d \in WrongLength : snapshot' = [exists |-> TRUE, data |-> d]
    /\ lastSaved' = NoSnapshot
    /\ StoreChanged
    /\ UNCHANGED storeOk

\* the stored snapshot replaced by 9 characters that are not all symbols
OverwriteSnapshot ==
    /\ snapshot.exists
    /\ snapshot' = [exists |-> TRUE, data |-> Foreign]
    /\ lastSaved' = NoSnapshot
    /\ StoreChanged
    /\ UNCHANGED storeOk

\* the storage location stops, or starts again, being readable and writable
StoreFault ==
    /\ storeOk' = ~storeOk
    /\ StoreChanged
    /\ UNCHANGED <<snapshot, lastSaved>>

InitStore == \E supplied \in StoreSupplied : Constructed(Game(supplied))

NextStore ==
    \/ NewGameCall
    \/ (Marks(game) < MaxMarks /\ UserMoveCall)
    \/ (Marks(game) < MaxMarks /\ ComputerMoveCall)
    \/ SaveGameCall
    \/ RestoreGameCall
    \/ DeleteSnapshot
    \/ CorruptSnapshot
    \/ OverwriteSnapshot
    \/ StoreFault

SpecStore == InitStore /\ [][NextStore]_vars

\* C8: a saveGame() that succeeds, followed at once by restoreGame(), leaves
\* the engine's board and the board restoreGame() returns equal, cell for
\* cell, to the board that was saved.
C8_RoundTrip ==
    [][(op = "saveGame" /\ raised = "none" /\ op' = "restoreGame")
          => /\ raised' = "none"
             /\ Len(game') = BoardLen
             /\ \A i \in Cells : Get(game', i) = Get(pre, i)
             /\ ret' = game']_vars

C8_Witness ==
    /\ op = "restoreGame"
    /\ raised = "none"
    /\ storeOk
    /\ snapshot.exists
    /\ Full(game)
    /\ snapshot.data = game
    /\ pre = game

\* C9: when retrieval fails (no snapshot stored, the snapshot deleted, the
\* location unreadable, or the snapshot corrupted to another length),
\* restoreGame() returns normally and both the engine's board and the returned
\* board are the all-blank 9-cell board, whatever the board was before.
C9_LoadFailureGivesNewBoard ==
    (op = "restoreGame"
       /\ (~snapshot.exists \/ ~storeOk \/ Len(snapshot.data) # BoardLen))
        => /\ raised = "none"
           /\ game = NewBoard
           /\ ret = NewBoard

C9_Witness ==
    /\ op = "restoreGame"
    /\ snapshot.exists
    /\ ~storeOk
    /\ pre # NewBoard
    /\ game = NewBoard

\* C10: when the load succeeds with a snapshot whose length is not 9,
\* restoreGame() does not install it: it returns normally and both the
\* engine's board and the returned board are the all-blank 9-cell board.
C10_WrongLengthGivesNewBoard ==
    (op = "restoreGame" /\ snapshot.exists /\ storeOk /\ Len(snapshot.data) # BoardLen)
        => /\ raised = "none"
           /\ game # snapshot.data
           /\ game = NewBoard
           /\ ret = NewBoard

C10_Witness ==
    /\ op = "restoreGame"
    /\ storeOk
    /\ snapshot = [exists |-> TRUE, data |-> <<"X", "O", "X">>]
    /\ pre # NewBoard
    /\ game = NewBoard

\* C13: the board has exactly 9 cells in every reachable state: after
\* construction from None, from an empty list, from a list of 3 or 10 cells or
\* from a 9-cell list, and after any newGame, userMove, computerMove, saveGame
\* and restoreGame with whatever snapshot the store holds.
C13_BoardLengthNine == Len(game) = 9

C13_Witness ==
    /\ op = "restoreGame"
    /\ storeOk
    /\ snapshot.exists
    /\ Len(snapshot.data) = 10
    /\ Len(game) = 9

\* C14: every cell of the board holds " ", "X" or "O" in every reachable state,
\* also after construction from any 9-cell list and after restoreGame() has
\* installed any 9-cell snapshot.
C14_CellsAreSymbols == \A i \in 1..Len(game) : game[i] \in {" ", "X", "O"}

\* C17: saveGame() leaves the engine's board as it was whether the store
\* succeeds or fails; when the location cannot be written the failure reaches
\* the caller and the snapshot stored before is still the one stored.
C17_SaveFailurePropagates ==
    [][op' = "saveGame"
          => /\ game' = game
             /\ storeOk => raised' = "none"
             /\ ~storeOk => (raised' = "IOFailure" /\ snapshot' = snapshot)]_vars

C17_Witness ==
    /\ op = "saveGame"
    /\ ~storeOk
    /\ raised = "IOFailure"
    /\ snapshot.exists
    /\ snapshot.data # game
    /\ game = pre

\* C19: one save slot, the last write wins: while the stored snapshot is left
\* alone outside the engine, a restoreGame() from a readable store sets the
\* board, and returns it, as it was at the latest successful saveGame(),
\* whatever was saved earlier and whatever moves were made since.
C19_LastSaveWins ==
    (op = "restoreGame" /\ storeOk /\ lastSaved.exists)
        => /\ raised = "none"
           /\ game = lastSaved.data
           /\ ret = lastSaved.data

C19_Witness ==
    /\ op = "restoreGame"
    /\ storeOk
    /\ lastSaved.exists
    /\ game = lastSaved.data
    /\ Marks(game) = 1
    /\ pre # game

----------------------------------------------------------------------------
(* Play from the empty board: Game() followed by userMove and computerMove *)
(* calls in any order.  The engine does not refuse a move after a win.     *)

InitEmpty == Constructed(Game(None))

NextMoves == UserMoveCall \/ ComputerMoveCall

SpecMoves == InitEmpty /\ [][NextMoves]_vars

\* some triple of board b holds three times the symbol s
Wins(b, s) == \E t \in Triples : Filled(b, t, s)

\* C15, as claimed: on every board reached from the empty board by userMove and
\* computerMove calls, not both a triple of X's and a triple of O's exist.
C15_OneWinnerOnly == ~(Wins(game, "X") /\ Wins(game, "O"))

\* C15, amended: after a move made on a board without a completed triple, only
\* the symbol just placed can have a triple, so not both symbols have one.
C15_OnlyMoverWins ==
    (/\ op \in {"userMove", "computerMove"}
     /\ raised = "none"
     /\ ~Wins(pre, "X")
     /\ ~Wins(pre, "O"))
        => /\ ~(Wins(game, "X") /\ Wins(game, "O"))
           /\ ~Wins(game, IF Mover = "X" THEN "O" ELSE "X")

C15_Witness ==
    /\ op = "computerMove"
    /\ ~Wins(pre, "X")
    /\ ~Wins(pre, "O")
    /\ Wins(game, "O")
    /\ ret = "O"

\* C16: across userMove and computerMove calls a cell that holds "X" or "O"
\* keeps that symbol whatever the call does (places a symbol, raises, returns
\* "D"), and a call marks at most one more cell.
C16_MarksStay ==
    [][/\ \A i \in Cells : Get(game, i) # " " => Get(game', i) = Get(game, i)
       /\ Cardinality({i \in Cells : Get(game, i) = " " /\ Get(game', i) # " "}) <= 1
      ]_vars

C16_Witness ==
    /\ op = "computerMove"
    /\ ret = "D"
    /\ Full(game)
    /\ game = pre

----------------------------------------------------------------------------
(* The four-call sequence of test_multiple_moves_sequence, run on the      *)
(* engine: newGame(), userMove(0), computerMove(), userMove(2),            *)
(* computerMove().  pc is the position in the script; an exception ends    *)
(* the script at "error", as it ends the test.                             *)

\* one call of the script: on to position `to` unless the call raises
Scripted(to, name, a, out) ==
    /\ Called(name, a, out)
    /\ pc' = IF out.raised = "none" THEN to ELSE "error"
    /\ UNCHANGED <<snapshot, storeOk, lastSaved, result, iters>>

SeqNewGame ==
    /\ pc = "idle"
    /\ Scripted("new", "newGame", NoArg, newGame(game))

SeqUserMove0 ==
    /\ pc = "new"
    /\ Scripted("user0", "userMove", 0, userMove(game, 0))

SeqComputerMove1 ==
    /\ pc = "user0"
    /\ \E cell \in generateMove(game) :
           Scripted("comp1", "computerMove", NoArg, computerMove(game, cell))

SeqUserMove2 ==
    /\ pc = "comp1"
    /\ Scripted("user2", "userMove", 2, userMove(game, 2))

SeqComputerMove2 ==
    /\ pc = "user2"
    /\ \E cell \in generateMove(game) :
           Scripted("done", "computerMove", NoArg, computerMove(game, cell))

NextSeq ==
    \/ SeqNewGame
    \/ SeqUserMove0
    \/ SeqComputerMove1
    \/ SeqUserMove2
    \/ SeqComputerMove2

SpecSeq == Init /\ [][NextSeq]_vars

Count(b, s) == Cardinality({i \in Cells : Get(b, i) = s})

----------------------------------------------------------------------------
(* Two engines and their caller.  Python lists are objects: `objects` holds *)
(* the lists by identity and `refs` says which list the caller's variable   *)
(* and each engine's self.game point at.  List 1 is the caller's sequence,  *)
(* list 2 is the one the first engine makes for itself, list 3 the one the  *)
(* second makes for itself; refs.second = 0 until the second engine is      *)
(* constructed.  `game` stays the first engine's board, objects[refs.first].*)

MaxShared == 1

CallerList == 1
FirstOwn == 2
SecondOwn == 3

\* Game(game) on the list with identity id: self.game = game binds the
\* caller's list itself, [" "] * 9 is a new list
GameRef(lst, id, own) == IF lst # <<>> /\ Len(lst) = BoardLen THEN id ELSE own

CallerLists ==
    {b \in Boards : Marks(b) <= 1} \cup {<<"X", "O", "X">>}

InitAlias ==
    \E lst \in CallerLists :
        /\ objects = <<lst, NewBoard, NewBoard>>
        /\ refs = [caller |-> CallerList,
                   first |-> GameRef(lst, CallerList, FirstOwn),
                   second |-> 0]
        /\ game = objects[refs.first]
        /\ pre = game
        /\ op = "init"
        /\ arg = NoArg
        /\ ret = NoValue
        /\ raised = "none"
        /\ snapshot = NoSnapshot
        /\ storeOk = TRUE
        /\ lastSaved = NoSnapshot
        /\ pc = "idle"
        /\ NotPlaying

\* a step that leaves the lists as objs and the references as rf
Shared(name, a, objs, rf, r, e) ==
    /\ op' = name
    /\ arg' = a
    /\ pre' = game
    /\ objects' = objs
    /\ refs' = rf
    /\ game' = objs[rf.first]
    /\ ret' = r
    /\ raised' = e
    /\ UNCHANGED <<snapshot, storeOk, lastSaved, pc, result, iters>>

\* second = Game(lst), lst being the caller's variable
SecondConstruct ==
    /\ refs.second = 0
    /\ Shared("second.init", NoArg, objects,
              [refs EXCEPT !.second =
                  GameRef(objects[refs.caller], refs.caller, SecondOwn)],
              NoValue, "none")

\* second.userMove(cell): self.game[cell] = "X" writes into the list object
SecondUserMove ==
    /\ refs.second # 0
    /\ Marks(objects[refs.second]) < MaxShared
    /\ \E cell \in Cells :
           LET out == userMove(objects[refs.second], cell)
           IN  Shared("second.userMove", cell,
                      [objects EXCEPT ![refs.second] = out.game], refs,
                      out.ret, out.raised)

SecondComputerMove ==
    /\ refs.second # 0
    /\ Marks(objects[refs.second]) < MaxShared
    /\ \E cell \in generateMove(objects[refs.second]) :
           LET out == computerMove(objects[refs.second], cell)
           IN  Shared("second.computerMove", NoArg,
                      [objects EXCEPT ![refs.second] = out.game], refs,
                      out.ret, out.raised)

\* second.newGame(): self.game = [" "] * 9 binds a new list
SecondNewGame ==
    /\ refs.second # 0
    /\ LET out == newGame(objects[refs.second])
       IN  Shared("second.newGame", NoArg,
                  [objects EXCEPT ![SecondOwn] = out.game],
                  [refs EXCEPT !.second = SecondOwn],
                  out.ret, out.raised)

Written(lst) == Cardinality({i \in 1..Len(lst) : lst[i] # " "})

\* the caller's own lst[i] = v
CallerWrites ==
    \E i \in 0..(Len(objects[refs.caller]) - 1), v \in Symbols :
        /\ Written(Put(objects[refs.caller], i, v)) <= MaxShared
        /\ Shared("caller.write", i,
                  [objects EXCEPT ![refs.caller] = Put(objects[refs.caller], i, v)],
                  refs, NoValue, "none")

NextAlias ==
    \/ SecondConstruct
    \/ SecondUserMove
    \/ SecondComputerMove
    \/ SecondNewGame
    \/ CallerWrites

SpecAlias == InitAlias /\ [][NextAlias]_vars

\* C20: a Game constructed from a caller-supplied 9-element sequence owns
\* its board: moves on a second Game built from the same sequence, and the
\* caller's own writes to the sequence, leave the first Game's board as it was.
C20_BoardExclusivelyOwned ==
    op \in {"second.init", "second.userMove", "second.computerMove",
            "second.newGame", "caller.write"}
        => game = pre

----------------------------------------------------------------------------
(* Game.playTest, one step per statement.  pc is the statement playTest    *)
(* stands at: "idle" before the call, "while" at the loop test, "user" at  *)
(* the try block, "moved" after it without an exception, "oops" after the  *)
(* except branch, "report" at the if/elif/else, "draw" and "winner" after  *)
(* the matching print, "exit" after the loop.                              *)

MaxIters == 6

\* what no statement of playTest touches.  op, arg, ret, raised and pre
\* record the calls a caller makes on the engine; the calls playTest makes
\* on self keep their outcome in result and pc.
Inside ==
    UNCHANGED <<snapshot, storeOk, op, arg, ret, raised, pre, lastSaved,
                objects, refs>>

\* a call playTest makes on self
Played(out) ==
    /\ game' = out.game
    /\ Inside

\* a statement of playTest that calls nothing
Local ==
    /\ UNCHANGED game
    /\ Inside

\* result = ""; self.newGame()
PlayStart ==
    /\ pc = "idle"
    /\ Played(newGame(game))
    /\ result' = ""
    /\ iters' = 0
    /\ pc' = "while"

\* while not result: the body is entered
PlayEnter ==
    /\ pc = "while"
    /\ result = ""
    /\ iters < MaxIters
    /\ iters' = iters + 1
    /\ pc' = "user"
    /\ UNCHANGED result
    /\ Local

\* while not result: the loop is over
PlayExit ==
    /\ pc = "while"
    /\ result # ""
    /\ pc' = "exit"
    /\ UNCHANGED <<result, iters>>
    /\ Local

\* try: result = self.userMove(self._generateMove())
\* except ValueError: print("Oops, that shouldn't happen")
PlayUserMove ==
    /\ pc = "user"
    /\ \E cell \in generateMove(game) :
           LET out == userMove(game, cell)
           IN  /\ Played(out)
               /\ result' = IF out.raised = "none" THEN out.ret ELSE result
               /\ pc' = IF out.raised = "none" THEN "moved" ELSE "oops"
    /\ UNCHANGED iters

\* if not result: result = self.computerMove()
PlayComputerMove ==
    /\ pc \in {"moved", "oops"}
    /\ result = ""
    /\ \E cell \in generateMove(game) :
           LET out == computerMove(game, cell)
           IN  /\ Played(out)
               /\ result' = out.ret
    /\ pc' = "report"
    /\ UNCHANGED iters

\* if not result: the user's move gave a result, no computer move
PlaySkipComputer ==
    /\ pc \in {"moved", "oops"}
    /\ result # ""
    /\ pc' = "report"
    /\ UNCHANGED <<result, iters>>
    /\ Local

\* if not result: continue / elif result == "D": print / else: print
PlayReport ==
    /\ pc = "report"
    /\ pc' = IF result = "" THEN "while"
             ELSE IF result = "D" THEN "draw" ELSE "winner"
    /\ UNCHANGED <<result, iters>>
    /\ Local

\* print(self.game), the last statement of the body
PlayPrintBoard ==
    /\ pc \in {"draw", "winner"}
    /\ pc' = "while"
    /\ UNCHANGED <<result, iters>>
    /\ Local

NextPlay ==
    \/ PlayStart
    \/ PlayEnter
    \/ PlayExit
    \/ PlayUserMove
    \/ PlayComputerMove
    \/ PlaySkipComputer
    \/ PlayReport
    \/ PlayPrintBoard

\* playTest runs on one thread: it takes its next statement when it has one
\* (every statement moves pc)
SpecPlay == InitStore /\ [][NextPlay]_vars /\ WF_pc(NextPlay)

Results == {"X", "O", "D"}

\* C21: playTest() always terminates: whatever the random choices, the loop
\* body is entered at most 5 times and the loop ends with a result that is
\* "X", "O" or "D".
C21_PlayTestTerminates ==
    /\ [](iters <= 5)
    /\ [](pc = "exit" => result \in Results)
    /\ <>(pc = "exit")

C21_Witness ==
    /\ pc = "exit"
    /\ iters = 5
    /\ result = "D"

\* C22: in playTest() the user's move is never invalid: at every user turn
\* the board has a blank cell, so _generateMove() does not return -1 there,
\* userMove does not raise ValueError, and the except branch ("Oops, that
\* shouldn't happen") is never taken.
C22_UserMoveNeverInvalid ==
    /\ pc = "user"
          => /\ options(game) # <<>>
             /\ -1 \notin generateMove(game)
             /\ \A cell \in generateMove(game) :
                   userMove(game, cell).raised = "none"
    /\ pc # "oops"

C22_Witness ==
    /\ pc = "moved"
    /\ iters = 5
    /\ Full(game)
    /\ result = ""

\* C23: under playTest()'s alternation the result is truthful: the number
\* of X minus the number of O is 0 or 1; result "X" (resp. "O") is held only
\* when the board has a triple of X (resp. O) and none of the other symbol;
\* result "D" is held only when the board is full with no completed triple.
C23_ResultTruthful ==
    pc # "idle"
        => /\ Count(game, "X") - Count(game, "O") \in {0, 1}
           /\ result = "X" => (Wins(game, "X") /\ ~Wins(game, "O"))
           /\ result = "O" => (Wins(game, "O") /\ ~Wins(game, "X"))
           /\ result = "D"
                 => (Full(game) /\ ~Wins(game, "X") /\ ~Wins(game, "O"))
           /\ result \in Results \cup {""}

C23_Witness ==
    /\ pc = "exit"
    /\ result = "O"
    /\ Wins(game, "O")
    /\ Count(game, "X") = Count(game, "O")

====
